---------------------------- MODULE Spec2Model ----------------------------
(***************************************************************************)
(* Model of the two components of the repository:                          *)
(*   - the generation endpoint, POST in src/src/app/api/generate/route.ts  *)
(*   - the client form component, Home in src/unnamed/part_000             *)
(*                                                                         *)
(* JavaScript values are modelled as follows.  An optional value (a JSON   *)
(* property that may be absent, a React state that may be null, an         *)
(* environment variable that may be unset) is a sequence of length at most *)
(* one: << >> is undefined/null, <<v>> is the value v.  A prompt is a      *)
(* sequence of characters, so that String.prototype.trim is computed and   *)
(* not assumed.  All other strings are TLA+ strings.                       *)
(***************************************************************************)
EXTENDS Naturals, Sequences, FiniteSets, TLC

VARIABLES
    \* ---- endpoint (route.ts) ----
    apiKey,         \* process.env.GEMINI_API_KEY
    spc,            \* position of the POST handler: "idle", "awaiting", "done"
    req,            \* body of the request being handled
    providerCalls,  \* calls of model.generateContent made for this request
    providerReply,  \* what the provider answered (history), << >> if nothing yet
    responses,      \* responses returned by the handler for this request
    \* ---- client (Home) ----
    prompt,         \* useState<string>('')
    type,           \* useState<GenerationType>('text')
    result,         \* useState<GenerateResponse | null>(null)
    loading,        \* useState<boolean>(false)
    error,          \* useState<FormError | null>(null)
    toast,          \* the notification shown last (sonner)
    inflight,       \* number of fetch('/api/generate') calls not yet settled
    lastOp,         \* the handler that ran last (history)
    lastOutcome,    \* the outcome the fetch settled last delivered (history)
    overlap,        \* the submission accepted last was accepted while another
                    \* one was in flight (history)
    tick            \* flips on every handler run (history)

serverVars == <<apiKey, spc, req, providerCalls, providerReply, responses>>
clientVars == <<prompt, type, result, loading, error, toast, inflight,
                lastOp, lastOutcome, overlap, tick>>
vars == <<serverVars, clientVars>>

---------------------------------------------------------------------------
(* Bounds *)

\* longest prompt, in characters
MaxLen == 2
\* most fetches a driver of the form leaves unsettled at once
MaxInFlight == 2

\* characters a prompt is made of: a whitespace and a letter
Chars == {" ", "a"}

RECURSIVE SeqsUpTo(_)
SeqsUpTo(n) ==
    IF n = 0 THEN {<< >>}
    ELSE LET shorter == SeqsUpTo(n - 1)
         IN  shorter \cup {Append(s, c) : s \in {t \in shorter : Len(t) = n - 1}, c \in Chars}

Prompts == SeqsUpTo(MaxLen)

---------------------------------------------------------------------------
(* JavaScript helpers *)

None == << >>
Some(v) == <<v>>

\* !v for an optional string whose empty value is `empty`
Falsy(v, empty) == v = None \/ v[1] = empty

\* error instanceof Error ? error.message : fallback
MessageOf(thrown, fallback) ==
    IF thrown.isError THEN thrown.message ELSE fallback

JsError(m) == [isError |-> TRUE, message |-> m]
\* a thrown value that is no Error (throw "x", throw {code: 1})
NonError == [isError |-> FALSE, message |-> ""]

---------------------------------------------------------------------------
(* The endpoint: POST of route.ts *)

TYPES == {"text", "image"}

MissingKeyMessage == "Server configuration error: Missing API key"
ValidationMessage == "Prompt and valid type (text or image) are required"
ImageMessage == "Image generation not supported in this version"
InternalMessage == "Internal server error"

\* NextResponse.json(body, { status })
ErrorResponse(message, status) ==
    [status |-> status, type |-> None, content |-> None, error |-> Some(message)]

\* mutant: the response object is sent in place of its text
TextResponse_NoText(text) ==
    [status |-> 200, type |-> Some("text"), content |-> Some("[object Object]"), error |-> None]

\* NextResponse.json({ type: "text", content: text }): the status defaults to 200
TextResponse(text) ==
    [status |-> 200, type |-> Some("text"), content |-> Some(text), error |-> None]

\* the request bodies: one req.json() rejects, JSON null, and JSON objects
MalformedBody == [kind |-> "malformed", prompt |-> None, type |-> None]
NullBody == [kind |-> "null", prompt |-> None, type |-> None]
ObjectBodies ==
    [kind : {"object"},
     prompt : {None} \cup {Some(p) : p \in Prompts},
     type : {None} \cup {Some(t) : t \in {"", "text", "image", "video"}}]
Bodies == {MalformedBody, NullBody} \cup ObjectBodies

\* what the provider call can end in: generateContent and response.text()
\* give a text, or one of them throws
ProviderTexts == {"", "It was a dark night..."}
ProviderThrows == {JsError("quota exceeded"), JsError(""), NonError}

\* !process.env.GEMINI_API_KEY
KeyMissing(key) == Falsy(key, "")

\* mutant: the membership of type in ["text", "image"] is not checked
InvalidBody_NoTypeCheck(b) ==
    \/ Falsy(b.prompt, << >>)
    \/ Falsy(b.type, "")

\* !prompt || !type || !["text", "image"].includes(type)
InvalidBody(b) ==
    \/ Falsy(b.prompt, << >>)
    \/ Falsy(b.type, "")
    \/ b.type[1] \notin TYPES

\* mutant: the catch block always answers with the generic message
Caught_Generic(thrown) == ErrorResponse(InternalMessage, 500)

\* the catch block
Caught(thrown) == ErrorResponse(MessageOf(thrown, InternalMessage), 500)

\* await req.json() and the destructuring of its value
ParseThrows(b) ==
    CASE b.kind = "malformed" -> Some(JsError("Unexpected token in JSON"))
      [] b.kind = "null" -> Some(JsError("Cannot destructure property 'prompt'"))
      [] OTHER -> None

\* mutant: the body is validated before the credential is looked at
PostSync_ValidatesFirst(key, b) ==
    IF ParseThrows(b) # None
    THEN [call |-> FALSE, response |-> Some(Caught(ParseThrows(b)[1]))]
    ELSE IF InvalidBody(b)
    THEN [call |-> FALSE, response |-> Some(ErrorResponse(ValidationMessage, 400))]
    ELSE IF KeyMissing(key)
    THEN [call |-> FALSE, response |-> Some(ErrorResponse(MissingKeyMessage, 500))]
    ELSE IF b.type[1] = "text"
    THEN [call |-> TRUE, response |-> None]
    ELSE [call |-> FALSE, response |-> Some(ErrorResponse(ImageMessage, 501))]

\* mutant: the image branch forwards the prompt to the provider as well
PostSync_ImageForwarded(key, b) ==
    IF KeyMissing(key)
    THEN [call |-> FALSE, response |-> Some(ErrorResponse(MissingKeyMessage, 500))]
    ELSE IF ParseThrows(b) # None
    THEN [call |-> FALSE, response |-> Some(Caught(ParseThrows(b)[1]))]
    ELSE IF InvalidBody(b)
    THEN [call |-> FALSE, response |-> Some(ErrorResponse(ValidationMessage, 400))]
    ELSE [call |-> TRUE, response |-> None]

\* POST up to its response or to the call of the provider: call is TRUE when
\* model.generateContent(prompt) is reached, and then there is no response yet
PostSync(key, b) ==
    IF KeyMissing(key)
    THEN [call |-> FALSE, response |-> Some(ErrorResponse(MissingKeyMessage, 500))]
    ELSE IF ParseThrows(b) # None
    THEN [call |-> FALSE, response |-> Some(Caught(ParseThrows(b)[1]))]
    ELSE IF InvalidBody(b)
    THEN [call |-> FALSE, response |-> Some(ErrorResponse(ValidationMessage, 400))]
    ELSE IF b.type[1] = "text"
    THEN [call |-> TRUE, response |-> None]
    ELSE [call |-> FALSE, response |-> Some(ErrorResponse(ImageMessage, 501))]

\* a request arrives and POST runs to its first response or to the provider
POST ==
    /\ spc \in {"idle", "done"}
    /\ \E b \in Bodies :
        LET r == PostSync(apiKey, b)
        IN  /\ req' = b
            /\ providerReply' = None
            /\ IF r.call
               THEN /\ spc' = "awaiting"
                    /\ providerCalls' = 1
                    /\ responses' = << >>
               ELSE /\ spc' = "done"
                    /\ providerCalls' = 0
                    /\ responses' = r.response
    /\ UNCHANGED <<apiKey, clientVars>>

\* const text = result.response.text(); return NextResponse.json(...)
ProviderResolves ==
    /\ spc = "awaiting"
    /\ \E t \in ProviderTexts :
        /\ providerReply' = Some([ok |-> TRUE, text |-> t, thrown |-> NonError])
        /\ responses' = Append(responses, TextResponse(t))
    /\ spc' = "done"
    /\ UNCHANGED <<apiKey, req, providerCalls, clientVars>>

\* generateContent or response.text() throws: the catch block answers
ProviderRejects ==
    /\ spc = "awaiting"
    /\ \E e \in ProviderThrows :
        /\ providerReply' = Some([ok |-> FALSE, text |-> "", thrown |-> e])
        /\ responses' = Append(responses, Caught(e))
    /\ spc' = "done"
    /\ UNCHANGED <<apiKey, req, providerCalls, clientVars>>

---------------------------------------------------------------------------
(* The client form component: Home of part_000 *)

GENERATION_TYPES == {"text", "image"}

\* String.prototype.trim: whitespace is removed from both ends
RECURSIVE TrimStart(_)
TrimStart(s) ==
    IF s # << >> /\ Head(s) = " " THEN TrimStart(Tail(s)) ELSE s

RECURSIVE TrimEnd(_)
TrimEnd(s) ==
    IF s # << >> /\ s[Len(s)] = " " THEN TrimEnd(SubSeq(s, 1, Len(s) - 1)) ELSE s

Trim(s) == TrimEnd(TrimStart(s))

\* mutant: the prompt is not trimmed
isFormValid_NoTrim == Len(prompt) > 0 /\ type \in GENERATION_TYPES

\* useMemo: prompt.trim().length > 0 && GENERATION_TYPES.includes(type)
isFormValid == Len(Trim(prompt)) > 0 /\ type \in GENERATION_TYPES

\* mutant: the Button is not disabled while a request is in flight
SubmitDisabled_IgnoresLoading == ~isFormValid

\* the submit Button: disabled={loading || !isFormValid}
SubmitDisabled == loading \/ ~isFormValid

\* the Input and the Select: disabled={loading}
InputDisabled == loading

ValidationError == "A valid incantation and type are required."
InvalidResponseMessage == "Invalid response from the abyss"
RejectedMessage == "The abyss rejected your request."
\* `HTTP error! Status: ${response.status}`
HttpErrorMessage(status) == "HTTP error! Status: " \o ToString(status)

FormError(m) == Some([message |-> m])

ValidationToast ==
    [title |-> "Forbidden Incantation",
     description |-> "Provide a proper prompt and select a creation type."]
SuccessToast(t) ==
    [title |-> "Creation Summoned",
     description |-> "Your " \o t \o " has emerged from the shadows."]
FailureToast(m) == [title |-> "Ritual Failed", description |-> m]
NoToast == [title |-> "", description |-> ""]

\* what response.json() can give: a rejection (the body is no JSON), null, or
\* an object whose properties type, content and error may each be absent
NotJson == [kind |-> "notjson", type |-> None, content |-> None, error |-> None]
JsonNull == [kind |-> "null", type |-> None, content |-> None, error |-> None]
JsonObject(t, c, e) == [kind |-> "object", type |-> t, content |-> c, error |-> e]
\* bodies in the shape of GenerateResponse, type or content absent or empty
DataBodies ==
    {JsonObject(t, c, None) :
        t \in {None, Some(""), Some("text"), Some("image")},
        c \in {None, Some(""), Some("Hello")}}
\* bodies in the shape of the endpoint's errors, error absent or empty
ErrorBodies == {JsonObject(None, None, e) : e \in {None, Some(""), Some("boom")}}
\* a body with all three properties
FullBody == JsonObject(Some("text"), Some("Hello"), Some("boom"))
JsonBodies == {NotJson, JsonNull, FullBody} \cup DataBodies \cup ErrorBodies

\* what fetch can reject with: a network failure (TypeError), the abort of
\* AbortSignal.timeout(30000) (a DOMException, which is an Error), and a
\* reason that is no Error
NetworkFailure == JsError("Failed to fetch")
TimeoutAbort == JsError("The operation was aborted due to timeout")
Rejections == {NetworkFailure, TimeoutAbort, NonError}

Rejected(r) == [k |-> "reject", status |-> 0, body |-> NotJson, reason |-> r]
Response(st, b) == [k |-> "response", status |-> st, body |-> b, reason |-> NonError]

\* the endpoint's statuses; bodies of the wrong shape come with 200 and 500
Outcomes ==
    {Rejected(r) : r \in Rejections}
    \cup {Response(200, b) : b \in JsonBodies}
    \cup {Response(st, b) : st \in {400, 500, 501}, b \in {NotJson, JsonNull, FullBody} \cup ErrorBodies}
    \cup {Response(500, JsonObject(Some("text"), Some("Hello"), None))}

\* response.ok
Ok(status) == status >= 200 /\ status <= 299

Thrown(e) == [ok |-> FALSE, data |-> NotJson, thrown |-> e]
Returned(d) == [ok |-> TRUE, data |-> d, thrown |-> NonError]

\* mutant: the body of a response that is not ok is not read
NotOkBranch_StatusOnly(o) == Thrown(JsError(HttpErrorMessage(o.status)))

\* if (!response.ok) { ... throw new Error(errorData.error || `HTTP error! ...`) }
\* response.json().catch(() => ({})) turns a body that is no JSON into {}
NotOkBranch(o) ==
    IF o.body.kind = "null"
    THEN Thrown(JsError("Cannot read properties of null (reading 'error')"))
    ELSE IF Falsy(o.body.error, "")
    THEN Thrown(JsError(HttpErrorMessage(o.status)))
    ELSE Thrown(JsError(o.body.error[1]))

\* mutant: only type is required
InvalidData_TypeOnly(d) == Falsy(d.type, "")

\* if (!data.type || !data.content) throw new Error('Invalid response ...')
InvalidData(d) == Falsy(d.type, "") \/ Falsy(d.content, "")

\* the try block after the fetch settles: the data it reaches setResult with,
\* or the value it throws
TryBlock(o) ==
    IF o.k = "reject" THEN Thrown(o.reason)
    ELSE IF ~Ok(o.status) THEN NotOkBranch(o)
    ELSE IF o.body.kind = "notjson" THEN Thrown(JsError("Unexpected token in JSON"))
    ELSE IF o.body.kind = "null"
    THEN Thrown(JsError("Cannot read properties of null (reading 'type')"))
    ELSE IF InvalidData(o.body) THEN Thrown(JsError(InvalidResponseMessage))
    ELSE Returned(o.body)

\* mutant: an edit leaves the error in place
ClearError_Keeps == error

\* if (error) setError(null)
ClearError == IF error # None THEN None ELSE error

handlePromptChange ==
    /\ ~InputDisabled
    /\ \E v \in Prompts \ {prompt} : prompt' = v
    /\ error' = ClearError
    /\ lastOp' = "handlePromptChange"
    /\ tick' = ~tick
    /\ UNCHANGED <<type, result, loading, toast, inflight,
                   lastOutcome, overlap, serverVars>>

handleTypeChange ==
    /\ ~InputDisabled
    /\ \E v \in GENERATION_TYPES \ {type} : type' = v
    /\ error' = ClearError
    /\ lastOp' = "handleTypeChange"
    /\ tick' = ~tick
    /\ UNCHANGED <<prompt, result, loading, toast, inflight,
                   lastOutcome, overlap, serverVars>>

\* handleSubmit up to the await of fetch
handleSubmit ==
    /\ IF ~isFormValid
       THEN /\ error' = FormError(ValidationError)
            /\ toast' = ValidationToast
            /\ lastOp' = "submitRejected"
            /\ UNCHANGED <<result, loading, inflight, overlap>>
       ELSE /\ loading' = TRUE
            /\ error' = None
            /\ result' = None
            /\ inflight' = inflight + 1
            /\ overlap' = (inflight > 0)
            /\ lastOp' = "submitAccepted"
            /\ UNCHANGED toast
    /\ tick' = ~tick
    /\ UNCHANGED <<prompt, type, lastOutcome, serverVars>>

\* the user presses the submit Button
ClickSubmit ==
    /\ ~SubmitDisabled
    /\ handleSubmit

\* the form's submit event is dispatched without the Button
\* (form.requestSubmit(), a test's fireEvent.submit)
DispatchSubmit ==
    /\ inflight < MaxInFlight
    /\ handleSubmit

\* the fetch of one submission settles and handleSubmit runs to its end:
\* the rest of the try block, the catch block, the finally block
FetchSettles ==
    /\ inflight > 0
    /\ \E o \in Outcomes :
        LET r == TryBlock(o)
            m == MessageOf(r.thrown, RejectedMessage)
        IN  /\ lastOutcome' = Some(o)
            /\ IF r.ok
               THEN /\ result' = Some(r.data)
                    /\ toast' = SuccessToast(r.data.type[1])
                    /\ UNCHANGED error
               ELSE /\ error' = FormError(m)
                    /\ toast' = FailureToast(m)
                    /\ UNCHANGED result
    /\ loading' = FALSE
    /\ inflight' = inflight - 1
    /\ lastOp' = "settled"
    /\ tick' = ~tick
    /\ UNCHANGED <<prompt, type, overlap, serverVars>>

---------------------------------------------------------------------------
(* Initial states and specifications *)

InitServer ==
    /\ apiKey \in {None, Some(""), Some("k")}
    /\ spc = "idle"
    /\ req = NullBody
    /\ providerCalls = 0
    /\ providerReply = None
    /\ responses = << >>

InitClient ==
    /\ prompt = << >>
    /\ type = "text"
    /\ result = None
    /\ loading = FALSE
    /\ error = None
    /\ toast = NoToast
    /\ inflight = 0
    /\ lastOp = "init"
    /\ lastOutcome = None
    /\ overlap = FALSE
    /\ tick = FALSE

Init == InitServer /\ InitClient

NextServer == POST \/ ProviderResolves \/ ProviderRejects

\* the endpoint
Spec == Init /\ [][NextServer]_vars

\* the client, the server's credential being configured
InitForm == Init /\ apiKey = Some("k")

\* the form driven through its controls in a browser
NextClient == handlePromptChange \/ handleTypeChange \/ ClickSubmit \/ FetchSettles
SpecClient == InitForm /\ [][NextClient]_vars

\* the form driven through its controls and through submit events that do
\* not come from the Button.  fetch is given AbortSignal.timeout(30000), so
\* every fetch settles.
NextForm == NextClient \/ DispatchSubmit
SpecForm == InitForm /\ [][NextForm]_vars /\ WF_vars(FetchSettles)

---------------------------------------------------------------------------
(* Properties of the endpoint, checked under Spec *)

\* the body of the request is a JSON object
ObjectRequest == req.kind = "object"
\* prompt is absent or the empty string
PromptMissing == req.prompt = << >> \/ req.prompt = << << >> >>
\* type is absent or is neither "text" nor "image"
TypeUnknown == req.type = << >> \/ req.type[1] \notin {"text", "image"}
\* GEMINI_API_KEY is set to a non-empty value
KeyConfigured == apiKey # << >> /\ apiKey # <<"">>
\* the handler has returned exactly this error response
Answered(status, message) ==
    responses = <<[status |-> status, type |-> << >>, content |-> << >>,
                   error |-> <<message>>]>>
ProviderReturned == providerReply # << >> /\ providerReply[1].ok
ProviderThrew == providerReply # << >> /\ ~providerReply[1].ok

\* C1 as stated: every request whose body misses prompt (absent or empty) or
\* whose type is not in {"text","image"} is answered 400 with the fixed
\* message, and the provider is not invoked.
C1_Original ==
    (spc = "done" /\ ObjectRequest /\ (PromptMissing \/ TypeUnknown))
        => /\ Answered(400, "Prompt and valid type (text or image) are required")
           /\ providerCalls = 0

\* C1 as amended: for every request whose body is a JSON object that misses
\* prompt (absent or empty) or whose type is not in {"text","image"}, the
\* provider is never invoked, and when the credential is configured the
\* response is 400 with the fixed message.
C1_Amended ==
    (ObjectRequest /\ (PromptMissing \/ TypeUnknown))
        => /\ spc = "done"
           /\ providerCalls = 0
           /\ providerReply = << >>
           /\ KeyConfigured
                => Answered(400, "Prompt and valid type (text or image) are required")

C1_Witness ==
    /\ spc = "done" /\ KeyConfigured /\ ObjectRequest
    /\ ~PromptMissing /\ req.type = <<"video">>
    /\ Answered(400, "Prompt and valid type (text or image) are required")

\* C2 as stated: every request with type "image", whatever its prompt, is
\* answered 501 with the fixed message, and the provider is not invoked.
C2_Original ==
    (spc = "done" /\ ObjectRequest /\ req.type = <<"image">>)
        => /\ Answered(501, "Image generation not supported in this version")
           /\ providerCalls = 0

\* C2 as amended: for every request with type "image" the provider is never
\* invoked, and when the credential is configured and prompt is a non-empty
\* string, whatever its content, the response is 501 with the fixed message.
C2_Amended ==
    (ObjectRequest /\ req.type = <<"image">>)
        => /\ spc = "done"
           /\ providerCalls = 0
           /\ providerReply = << >>
           /\ (KeyConfigured /\ ~PromptMissing)
                => Answered(501, "Image generation not supported in this version")

C2_Witness ==
    /\ spc = "done" /\ KeyConfigured /\ ObjectRequest
    /\ req.type = <<"image">> /\ req.prompt = << <<" ">> >>
    /\ Answered(501, "Image generation not supported in this version")

\* C3: for every valid request with type "text" (non-empty prompt), when the
\* provider returns text T the response is 200 { type: "text", content: T },
\* the type of the response being the type of the request.
C3_TextEchoed ==
    (spc = "done" /\ ObjectRequest /\ ~PromptMissing /\ req.type = <<"text">>
     /\ ProviderReturned)
        => /\ responses = <<[status |-> 200, type |-> <<"text">>,
                             content |-> <<providerReply[1].text>>,
                             error |-> << >>]>>
           /\ responses[1].type = req.type

C3_Witness ==
    /\ spc = "done" /\ req.type = <<"text">> /\ req.prompt = << <<"a">> >>
    /\ ProviderReturned /\ providerReply[1].text = "It was a dark night..."
    /\ Len(responses) = 1 /\ responses[1].status = 200

\* C4: when the credential is unset every request, whatever its body, is
\* answered 500 with the fixed configuration message; the credential is
\* checked before the body, and the provider is not called.
C4_KeyCheckedFirst ==
    (~KeyConfigured /\ spc # "idle")
        => /\ spc = "done"
           /\ Answered(500, "Server configuration error: Missing API key")
           /\ providerCalls = 0
           /\ providerReply = << >>

C4_Witness ==
    /\ apiKey = << >> /\ spc = "done"
    /\ ObjectRequest /\ PromptMissing /\ TypeUnknown
    /\ Answered(500, "Server configuration error: Missing API key")

\* C5: an exception raised while calling the provider is answered with exactly
\* one 500 response carrying the exception's message if it is an Error and
\* "Internal server error" otherwise; the handler never ends without a
\* response, answers nothing before the provider has, and calls the provider
\* at most once per request.
C5_ProviderErrorCaught ==
    /\ providerCalls <= 1
    /\ spc = "done" => Len(responses) = 1
    /\ spc = "awaiting" => responses = << >> /\ providerCalls = 1
    /\ (spc = "done" /\ ProviderThrew)
        => /\ providerCalls = 1
           /\ Answered(500, IF providerReply[1].thrown.isError
                            THEN providerReply[1].thrown.message
                            ELSE "Internal server error")

C5_Witness ==
    /\ spc = "done" /\ ProviderThrew
    /\ providerReply[1].thrown = [isError |-> TRUE, message |-> "quota exceeded"]
    /\ Answered(500, "quota exceeded")

---------------------------------------------------------------------------
(* Properties of the client *)

\* the prompt is empty after trimming: it holds nothing but whitespace
Blank(p) == \A i \in 1..Len(p) : p[i] = " "
FormInvalid == Blank(prompt) \/ type \notin {"text", "image"}
\* the step is a run of the named handlers
Ran(ops) == tick' # tick /\ lastOp' \in ops
SubmitOps == {"submitRejected", "submitAccepted"}
EditOps == {"handlePromptChange", "handleTypeChange"}
Err(m) == <<[message |-> m]>>

\* the alert region: {error && <p>{error.message}</p>}
ErrorRegion == IF error # None THEN Some(error[1].message) ELSE None
\* the prose of a text result: result.type === 'text' ? <p>{result.content}</p>
Prose ==
    IF result # None /\ result[1].type = Some("text") THEN result[1].content ELSE None
\* the image of any other result: src={`data:image/png;base64,${result.content}`}
Image ==
    IF result # None /\ result[1].type # Some("text") THEN result[1].content ELSE None

\* C6: a submission made while the prompt is empty after trimming (or the
\* type is not recognised) issues no network call, sets the validation error,
\* shows the validation notification and leaves the loading flag false.
C6_InvalidSubmitStaysLocal ==
    [][(FormInvalid /\ Ran(SubmitOps))
        => /\ inflight' = inflight
           /\ error' = Err("A valid incantation and type are required.")
           /\ toast'.title = "Forbidden Incantation"
           /\ ~loading /\ ~loading'
           /\ lastOp' = "submitRejected"]_vars

C6_Witness ==
    /\ lastOp = "submitRejected" /\ prompt = <<" ", " ">>
    /\ error = Err("A valid incantation and type are required.")
    /\ ~loading /\ inflight = 0

\* C7: the Button being disabled while a request is in flight, at most one
\* call to the endpoint is in flight in every reachable state, the loading
\* flag is set exactly while it is, and an accepted submission has issued
\* exactly one call.
C7_OneInFlight ==
    /\ inflight <= 1
    /\ loading <=> inflight = 1
    /\ lastOp = "submitAccepted" => inflight = 1

C7_Witness == lastOp = "submitAccepted" /\ inflight = 1 /\ loading

\* the fetch settled last gave a response with a success status and an
\* object for body
SettledOkObject ==
    /\ lastOp = "settled" /\ lastOutcome # << >>
    /\ lastOutcome[1].k = "response"
    /\ lastOutcome[1].status = 200
    /\ lastOutcome[1].body.kind = "object"
Present(v) == v # << >>
NonEmpty(v) == v # << >> /\ v # <<"">>

\* C8 as stated: a success response whose body has both type and content
\* present is stored as the result unchanged, the error stays empty and the
\* loading flag is cleared; the response is a failure only when type or
\* content is missing.
C8_Original ==
    (SettledOkObject /\ Present(lastOutcome[1].body.type)
                     /\ Present(lastOutcome[1].body.content))
        => /\ result = <<lastOutcome[1].body>>
           /\ error = << >>
           /\ ~loading

\* C8 as amended: a success response whose body has both type and content
\* present and non-empty is stored as the result unchanged, the error stays
\* empty and the loading flag is cleared ({ type: "text", content: "Hello" }
\* renders "Hello" and no error region); when type or content is absent or
\* the empty string the response is a failure ("invalid response").
C8_Amended ==
    SettledOkObject
        => IF NonEmpty(lastOutcome[1].body.type) /\ NonEmpty(lastOutcome[1].body.content)
           THEN /\ result = <<lastOutcome[1].body>>
                /\ error = << >>
                /\ ErrorRegion = << >>
                /\ ~loading
                /\ lastOutcome[1].body.type = <<"text">>
                    => Prose = lastOutcome[1].body.content /\ Image = << >>
                /\ toast.title = "Creation Summoned"
           ELSE /\ result = << >>
                /\ error = Err("Invalid response from the abyss")
                /\ ~loading

C8_Witness ==
    /\ SettledOkObject
    /\ lastOutcome[1].body.type = <<"text">>
    /\ lastOutcome[1].body.content = <<"Hello">>
    /\ Prose = <<"Hello">> /\ ErrorRegion = << >> /\ ~loading

\* the fetch settled last took a failure path: the fetch was rejected, the
\* status was no success, or the body was no JSON object with a non-empty
\* type and content
SettledFailed ==
    /\ lastOp = "settled" /\ lastOutcome # << >>
    /\ \/ lastOutcome[1].k = "reject"
       \/ lastOutcome[1].status \notin 200..299
       \/ lastOutcome[1].body.kind # "object"
       \/ ~NonEmpty(lastOutcome[1].body.type)
       \/ ~NonEmpty(lastOutcome[1].body.content)
\* the response settled last was not ok and carried { error: m }
NotOkWith(m) ==
    /\ lastOutcome[1].k = "response"
    /\ lastOutcome[1].status \notin 200..299
    /\ lastOutcome[1].body.kind = "object"
    /\ lastOutcome[1].body.error = <<m>>
RejectedWith(r) == lastOutcome[1].k = "reject" /\ lastOutcome[1].reason = r

\* C9 as stated, for submissions made one at a time: after any failure path,
\* the validation rejection included, there is no result, there is an error
\* message and the loading flag is false.
C9_Original ==
    (~overlap /\ (lastOp = "submitRejected" \/ SettledFailed))
        => result = << >> /\ error # << >> /\ ~loading

\* the state part of C9 as amended
C9_AfterFailure ==
    /\ SettledFailed
        => /\ error # << >>
           /\ ErrorRegion = <<toast.description>>
           /\ toast.title = "Ritual Failed"
           /\ ~loading
           /\ ~overlap => result = << >>
           /\ NotOkWith("boom") => error = Err("boom")
           /\ RejectedWith([isError |-> TRUE, message |-> "Failed to fetch"])
                => error = Err("Failed to fetch")
           /\ RejectedWith([isError |-> TRUE,
                            message |-> "The operation was aborted due to timeout"])
                => error = Err("The operation was aborted due to timeout")
    /\ lastOp = "submitRejected"
        => error = Err("A valid incantation and type are required.") /\ ~loading
    /\ lastOp = "submitAccepted" => result = << >> /\ error = << >> /\ loading

\* C9 as amended: on every failure path that reached the network step
\* (non-success status, invalid body, network failure, timeout abort, the
\* last two handled alike) the state afterwards has a stored error message
\* (exactly "boom" for a non-200 response with body { error: "boom" }), the
\* loading flag false, and no result unless another submission was in flight
\* at the same time, the result having been cleared when the submission was
\* accepted; a validation rejection stores the validation error and leaves
\* the loading flag false but keeps the prior result; the loading flag is
\* eventually cleared after every submission that reached the network step.
C9_Amended ==
    /\ []C9_AfterFailure
    /\ [][Ran({"submitRejected"}) => result' = result /\ loading' = loading]_vars
    /\ loading ~> ~loading

C9_Witness ==
    /\ SettledFailed /\ NotOkWith("boom") /\ ~overlap
    /\ error = Err("boom") /\ result = << >> /\ ~loading

\* C10 as stated: an error message that has been set stays, unchanged, over
\* every edit of the prompt and every change of the generation type.
C10_Original ==
    [][(error # << >> /\ Ran(EditOps)) => error' = error]_vars

\* C10 as amended: an error message that has been set (by validation or by
\* a failed request) stays in the error region, unchanged, until the next
\* submission attempt, until the user edits the prompt or changes the
\* generation type, each of which clears it, or until another request still
\* in flight fails and replaces it.
C10_Amended ==
    [][(error # << >> /\ error' # error)
        => \/ Ran(EditOps) /\ error' = << >> /\ ErrorRegion' = << >>
           \/ Ran({"submitAccepted"}) /\ error' = << >>
           \/ Ran({"submitRejected"})
           \/ Ran({"settled"}) /\ inflight > 0 /\ error' # << >>]_vars
    /\ [][(error # << >> /\ Ran(EditOps \cup {"submitAccepted"})) => error' = << >>]_vars
    /\ [][(error # << >> /\ ~Ran(EditOps \cup SubmitOps \cup {"settled"}))
            => error' = error]_vars

C10_Witness ==
    /\ lastOp = "handlePromptChange" /\ error = << >>
    /\ toast.title = "Forbidden Incantation" /\ inflight = 0

===========================================================================
